---- MODULE Spec2Model ----
(***************************************************************************)
(* DriftGuard session/scope coordination engine (StateManager v3.0.0,      *)
(* ScopeManager, RiskAnalyzer) as a state machine.                         *)
(*                                                                         *)
(* One action per public operation of StateManager.  Every operation is    *)
(* modelled as a whole handler: validation, mutation, logging and the      *)
(* trailing syncToDisk.  Values the engine only stores and never inspects  *)
(* (titles, session uuid, the timestamps of tasks and log entries) are     *)
(* left out of the records.  SpecAsync runs checkpoint and verify in two   *)
(* steps, split at their first await.                                      *)
(* Task ids (uuid fragments in the code) are the creation index of the     *)
(* task, which is also the iteration order of Object.values(tasks).        *)
(***************************************************************************)
EXTENDS Integers, Sequences, FiniteSets, TLC

VARIABLES
    session,    \* DriftSession: the in-memory session fields
    tasks,      \* Record<taskId, TaskContract>, in insertion order
    logs,       \* LogEntry[] (bounded queue)
    disk,       \* parsed content of .driftguard/tasks.json, or NoFile
    files,      \* working tree: file path -> content version (Absent if none)
    git,        \* the repository: HEAD commit and refs/notes/driftguard
    now,        \* the clock read by new Date()
    suspended,  \* the operation waiting at an await, or NoOp
    call,       \* the operation invoked by the last step, with its arguments
    pre,        \* session, tasks, logs and notes as they were when it was invoked
    result      \* what that operation returned or threw

vars == <<session, tasks, logs, disk, files, git, now, suspended, call, pre, result>>

-----------------------------------------------------------------------------
(* Bounds of the exploration *)

MaxTasks == 3
MaxLog == 4
\* number of entries logged in a row when the log limit is exercised
MaxAppends == 103
\* log entries in the runs that need several rounds of operations
MaxLongLog == 6
\* commits made and clock ticks while the audit notes are exercised
MaxCommits == 2
\* distinct authors of the commits of one path
MaxAuthors == 12
MaxTime == 2

-----------------------------------------------------------------------------
(* Program constants *)

LOG_LIMIT == 100
STATE_VERSION == "3.0.0"
OLDER_VERSION == "2.0.0"

IDLE == "IDLE"
PLANNING == "PLANNING"
EXECUTING == "EXECUTING"
VALIDATING == "VALIDATING"
PANIC == "PANIC"
FocusState == {IDLE, PLANNING, EXECUTING, VALIDATING, PANIC}

L2_LOGGED == 2
L4_ENGINEERED == 4

NoTask == 0
NoStep == "undefined"
Undefined == "undefined"
NoRisk == -1
NoStrictness == 0
NoFile == [version |-> "ENOENT"]
NoOp == [op |-> "none"]
Absent == 0

-----------------------------------------------------------------------------
(* Glob patterns and paths: sequences of path segments *)

GLOBSTAR == "**"
SrcAll == <<"src", GLOBSTAR>>
SrcIndex == <<"src", "index.ts">>
DocsAll == <<"docs", GLOBSTAR>>
DocsReadme == <<"docs", "README.md">>

Files == {SrcIndex, DocsReadme}
Contents == {1, 2}

\* one path portion against one pattern portion
segmentHit(f, p) == IF p = "*" THEN TRUE ELSE f = p

RECURSIVE matchOne(_, _)
matchOne(file, pattern) ==
    IF file = <<>> \/ pattern = <<>>
    THEN file = <<>> /\ pattern = <<>>
    ELSE IF Head(pattern) = GLOBSTAR
         THEN IF Len(pattern) = 1
              THEN TRUE
              ELSE \E fr \in 1..Len(file) :
                       matchOne(SubSeq(file, fr, Len(file)), Tail(pattern))
         ELSE segmentHit(Head(file), Head(pattern))
              /\ matchOne(Tail(file), Tail(pattern))

minimatch(p, pattern) == matchOne(p, pattern)

-----------------------------------------------------------------------------
(* ScopeManager *)

checkOverlap(pathA, pathB) ==
    \/ pathA = pathB
    \/ minimatch(pathA, pathB)
    \/ minimatch(pathB, pathA)

\* variant: only an exclusive existing claim blocks an overlapping request
checkConflict_exclusiveOnly(requestedPath, requestorTaskId, activeClaims, tasks_) ==
    LET hit(i) ==
            LET claim == activeClaims[i] IN
            /\ claim.ownerTaskId # requestorTaskId
            /\ ~(/\ requestorTaskId \in DOMAIN tasks_
                 /\ tasks_[requestorTaskId].parentTaskId = claim.ownerTaskId)
            /\ checkOverlap(requestedPath, claim.path)
            /\ claim.exclusive
        hits == {i \in 1..Len(activeClaims) : hit(i)}
    IN  IF hits = {} THEN 0
        ELSE CHOOSE i \in hits : \A j \in hits : i <= j

\* variant: only the requestor's own claims are skipped
checkConflict_ownOnly(requestedPath, requestorTaskId, activeClaims, tasks_) ==
    LET hit(i) ==
            LET claim == activeClaims[i] IN
            /\ claim.ownerTaskId # requestorTaskId
            /\ checkOverlap(requestedPath, claim.path)
        hits == {i \in 1..Len(activeClaims) : hit(i)}
    IN  IF hits = {} THEN 0
        ELSE CHOOSE i \in hits : \A j \in hits : i <= j

\* Index in activeClaims of the claim returned, 0 for null.
checkConflict(requestedPath, requestorTaskId, activeClaims, tasks_) ==
    LET hit(i) ==
            LET claim == activeClaims[i] IN
            /\ claim.ownerTaskId # requestorTaskId
            /\ ~(/\ requestorTaskId \in DOMAIN tasks_
                 /\ tasks_[requestorTaskId].parentTaskId = claim.ownerTaskId)
            /\ checkOverlap(requestedPath, claim.path)
        hits == {i \in 1..Len(activeClaims) : hit(i)}
    IN  IF hits = {} THEN 0
        ELSE CHOOSE i \in hits : \A j \in hits : i <= j

\* variant: one covered child path is enough
validateDelegation_some(parentScope, childScope) ==
    \E c \in 1..Len(childScope) :
        \E p \in 1..Len(parentScope) :
            \/ minimatch(childScope[c], parentScope[p])
            \/ childScope[c] = parentScope[p]

validateDelegation(parentScope, childScope) ==
    \A c \in 1..Len(childScope) :
        \E p \in 1..Len(parentScope) :
            \/ minimatch(childScope[c], parentScope[p])
            \/ childScope[c] = parentScope[p]

-----------------------------------------------------------------------------
(* StateManager: helpers *)

EmptyMap == [f \in {} |-> Absent]

createInitialSession ==
    [currentState |-> IDLE,
     activeTaskId |-> NoTask,
     activeStepId |-> NoStep,
     isVerified |-> FALSE,
     intentFiled |-> FALSE,
     activeClaims |-> <<>>,
     lastKnownFileHashes |-> EmptyMap]

LogEntry(action, taskId, details) ==
    [action |-> action, taskId |-> taskId, details |-> details]

\* variant: slice(0, 100), the oldest entries are kept
log_oldest(logs_, action, taskId, details) ==
    LET pushed == Append(logs_, LogEntry(action, taskId, details)) IN
    IF Len(pushed) > LOG_LIMIT
    THEN SubSeq(pushed, 1, LOG_LIMIT)
    ELSE pushed

\* this.log: push the entry, keep only the last 100
log(logs_, action, taskId, details) ==
    LET pushed == Append(logs_, LogEntry(action, taskId, details)) IN
    IF Len(pushed) > LOG_LIMIT
    THEN SubSeq(pushed, Len(pushed) - LOG_LIMIT + 1, Len(pushed))
    ELSE pushed

\* JSON.stringify(this.state) written to tasks.json, as JSON.parse reads it
\* variant: the snapshot is written without the tasks
syncToDisk_noTasks(session_, tasks_, logs_) ==
    [version |-> STATE_VERSION, session |-> session_, tasks |-> <<>>, logs |-> logs_]

\* variant: the snapshot keeps the tasks up to the active one only
syncToDisk_upToActive(session_, tasks_, logs_) ==
    [version |-> STATE_VERSION, session |-> session_,
     tasks |-> SubSeq(tasks_, 1, session_.activeTaskId), logs |-> logs_]

\* variant: the snapshot is written before the newest task is registered
syncToDisk_withoutNewest(session_, tasks_, logs_) ==
    [version |-> STATE_VERSION, session |-> session_,
     tasks |-> SubSeq(tasks_, 1, Len(tasks_) - 1), logs |-> logs_]

syncToDisk(session_, tasks_, logs_) ==
    [version |-> STATE_VERSION, session |-> session_, tasks |-> tasks_, logs |-> logs_]

Snapshot == [session |-> session, tasks |-> tasks, logs |-> logs, notes |-> git.notes]

includes(arr, x) == \E i \in 1..Len(arr) : arr[i] = x

NoError == [kind |-> "none"]

StateTransitionError(action, fromState, allowedFromStates) ==
    [kind |-> "StateTransitionError", action |-> action,
     fromState |-> fromState, allowedFromStates |-> allowedFromStates]

IntentMissingError == [kind |-> "IntentMissingError"]

Error(message) == [kind |-> "Error", message |-> message]

Ok(value) == [kind |-> "ok", value |-> value]

\* variant: the guard lets every action through in PANIC
validateTransition_panicPasses(action, allowedFrom) ==
    IF ~includes(allowedFrom, session.currentState) /\ session.currentState # PANIC
    THEN StateTransitionError(action, session.currentState, allowedFrom)
    ELSE NoError

\* variant: the guard compares with the first allowed state only
validateTransition_firstOnly(action, allowedFrom) ==
    IF allowedFrom[1] # session.currentState
    THEN StateTransitionError(action, session.currentState, allowedFrom)
    ELSE NoError

\* variant: the guard treats PANIC as IDLE
validateTransition_panicAsIdle(action, allowedFrom) ==
    IF ~includes(allowedFrom, IF session.currentState = PANIC THEN IDLE
                              ELSE session.currentState)
    THEN StateTransitionError(action, session.currentState, allowedFrom)
    ELSE NoError

\* the error validateTransition throws, NoError when it returns
validateTransition(action, allowedFrom) ==
    IF ~includes(allowedFrom, session.currentState)
    THEN StateTransitionError(action, session.currentState, allowedFrom)
    ELSE NoError

\* the claim lists of the first n tasks, one after the other
RECURSIVE concatClaims(_, _)
concatClaims(tasks_, n) ==
    IF n = 0 THEN <<>> ELSE concatClaims(tasks_, n - 1) \o tasks_[n].claims

\* variant: the cache is rebuilt from the first task only
refreshActiveClaims_firstOnly(tasks_) ==
    IF tasks_ = <<>> THEN <<>> ELSE tasks_[1].claims

\* variant: the cache is emptied instead of rebuilt
refreshActiveClaims_emptied(tasks_) == <<>>

refreshActiveClaims(tasks_) == concatClaims(tasks_, Len(tasks_))

\* md5 of a file content: distinct contents give distinct digests
md5(content) == <<"md5", content>>

\* gitManager.listFiles: existing files matched by one of the patterns
listFiles(patterns) ==
    {f \in Files : files[f] # Absent /\ \E i \in 1..Len(patterns) : minimatch(f, patterns[i])}

calculateFileHashes(patterns) ==
    [f \in listFiles(patterns) |-> md5(files[f])]

\* { ...known, ...hashes }
spread(known, hashes) ==
    [f \in (DOMAIN known) \cup (DOMAIN hashes) |->
        IF f \in DOMAIN hashes THEN hashes[f] ELSE known[f]]

\* variant: a failed call is written to the log before the error is raised
Throw_logged(op, err) ==
    /\ call' = [op |-> op.op]
    /\ pre' = Snapshot
    /\ result' = err
    /\ logs' = log(logs, op.op, NoTask, "failed")
    /\ UNCHANGED <<session, tasks, disk, files, git, now, suspended>>

\* an operation that throws: nothing but the reply changes
Throw(op, err) ==
    /\ call' = [op |-> op.op]
    /\ pre' = Snapshot
    /\ result' = err
    /\ UNCHANGED <<session, tasks, logs, disk, files, git, now, suspended>>

-----------------------------------------------------------------------------
(* Inputs *)

Proposals ==
    {[goal |-> "G1", allowedScopes |-> <<SrcAll>>, checklist |-> <<"1", "2">>, strictness |-> NoStrictness],
     [goal |-> "G2", allowedScopes |-> <<SrcIndex>>, checklist |-> <<>>, strictness |-> L4_ENGINEERED]}

StepIds == {"step_a"}
Intents == {"do work"}
CompletedIds == {{}, {"1", "9"}, {"1", "2"}}

-----------------------------------------------------------------------------
(* StateManager: public API *)

Init ==
    /\ session = createInitialSession
    /\ tasks = <<>>
    /\ logs = <<>>
    /\ disk = NoFile
    /\ files = [f \in Files |-> 1]
    /\ git = [head |-> 1, notes |-> EmptyMap]
    /\ now = 0
    /\ suspended = NoOp
    /\ call = [op |-> "constructor"]
    /\ pre = [session |-> createInitialSession, tasks |-> <<>>, logs |-> <<>>,
              notes |-> EmptyMap]
    /\ result = NoError

\* the handler, run while the log has fewer than maxLog entries
proposeTaskWithin(p, maxLog) ==
    LET op == [op |-> "dg_propose_task", arg |-> p]
        err == validateTransition("dg_propose_task", <<IDLE>>)
    IN
    IF err # NoError THEN Throw(op, err)
    ELSE
        /\ Len(tasks) < MaxTasks
        /\ Len(logs) < maxLog
        /\ LET taskId == Len(tasks) + 1
               newTask ==
                   [taskId |-> taskId,
                    goal |-> p.goal,
                    allowedScopes |-> p.allowedScopes,
                    checklist |-> [i \in 1..Len(p.checklist) |->
                                      [id |-> p.checklist[i], status |-> "todo"]],
                    strictness |-> IF p.strictness = NoStrictness THEN L2_LOGGED ELSE p.strictness,
                    parentTaskId |-> NoTask,
                    subTaskIds |-> <<>>,
                    claims |-> <<>>,
                    lastIntent |-> Undefined,
                    filesToTouch |-> <<>>,
                    testCommand |-> Undefined,
                    riskScore |-> NoRisk]
           IN
           /\ tasks' = Append(tasks, newTask)
           /\ session' = [session EXCEPT !.activeTaskId = taskId]
           /\ logs' = log(logs, "dg_propose_task", taskId, "Task proposed")
           /\ disk' = syncToDisk(session', tasks', logs')
           /\ call' = op
           /\ pre' = Snapshot
           /\ result' = Ok(newTask)
           /\ UNCHANGED <<files, git, now, suspended>>

proposeTask(p) == proposeTaskWithin(p, MaxLog)

beginStep(stepId) ==
    LET op == [op |-> "dg_begin_step", arg |-> stepId]
        err == validateTransition("dg_begin_step", <<PLANNING, IDLE>>)
    IN
    IF err # NoError THEN Throw(op, err)
    ELSE IF session.activeTaskId = NoTask
    THEN Throw(op, Error("No active task. Use dg_propose_task first."))
    ELSE
        /\ Len(logs) < MaxLog
        /\ session' = [session EXCEPT !.activeStepId = stepId,
                                      !.currentState = EXECUTING]
        /\ logs' = log(logs, "dg_begin_step", session.activeTaskId, "Started step")
        /\ disk' = syncToDisk(session', tasks, logs')
        /\ call' = op
        /\ pre' = Snapshot
        /\ result' = Ok([taskId |-> session.activeTaskId, stepId |-> stepId,
                         state |-> EXECUTING])
        /\ UNCHANGED <<tasks, files, git, now, suspended>>

\* variant: a checkpoint that names any item completes the whole checklist
markDone_whole(checklist, completedChecklistIds) ==
    [i \in 1..Len(checklist) |->
        IF completedChecklistIds # {}
        THEN [checklist[i] EXCEPT !.status = "done"]
        ELSE checklist[i]]

\* checklist after completedChecklistIds.forEach(find + mark done)
markDone(checklist, completedChecklistIds) ==
    [i \in 1..Len(checklist) |->
        IF /\ checklist[i].id \in completedChecklistIds
           /\ \A j \in 1..(i - 1) : checklist[j].id # checklist[i].id
        THEN [checklist[i] EXCEPT !.status = "done"]
        ELSE checklist[i]]

countDone(checklist) == Cardinality({i \in 1..Len(checklist) : checklist[i].status = "done"})

pathsOf(claims) == [i \in 1..Len(claims) |-> claims[i].path]

\* variant: checkpoint without the intent gate
requireIntent_skipped == NoError

\* Phase 2 gate of checkpoint: the error thrown when no intent was filed
requireIntent ==
    IF ~session.intentFiled THEN IntentMissingError ELSE NoError

\* GitNoteMetadata built by checkpoint
noteMetadata(task, summary) ==
    [taskId |-> task.taskId, intent |-> task.lastIntent, summary |-> summary,
     timestamp |-> now]

\* git notes --ref refs/notes/driftguard add -f -m <note> <HEAD>
writeNote(git_, metadata) ==
    [git_ EXCEPT !.notes = spread(@, [c \in {git_.head} |-> metadata])]

\* git notes list: the commits that carry a note, here in commit order
RECURSIVE ascending(_)
ascending(S) ==
    IF S = {} THEN <<>>
    ELSE LET m == CHOOSE x \in S : \A y \in S : x <= y
         IN <<m>> \o ascending(S \ {m})

listNotedCommits(git_) == ascending(DOMAIN git_.notes)

\* history.sort by timestamp, newest first (the sort is stable)
RECURSIVE newestFirst(_)
newestFirst(history) ==
    IF history = <<>> THEN <<>>
    ELSE LET i == CHOOSE i \in 1..Len(history) :
                     /\ \A j \in 1..Len(history) :
                           history[j].timestamp <= history[i].timestamp
                     /\ \A j \in 1..(i - 1) :
                           history[j].timestamp < history[i].timestamp
         IN <<history[i]>> \o
            newestFirst(SubSeq(history, 1, i - 1) \o SubSeq(history, i + 1, Len(history)))

\* one readNote per noted commit, then the sort
reconstructHistory(git_) ==
    LET commits == listNotedCommits(git_) IN
    newestFirst([i \in 1..Len(commits) |-> git_.notes[commits[i]]])

\* variant: the checkpoint clears the task and the flags but stays in EXECUTING
checkpointSession_stillExecuting(session_, tasks_, hashes, allDone) ==
    [session_ EXCEPT
        !.lastKnownFileHashes = spread(session_.lastKnownFileHashes, hashes),
        !.activeClaims = refreshActiveClaims(tasks_),
        !.activeStepId = NoStep,
        !.intentFiled = FALSE,
        !.isVerified = FALSE,
        !.activeTaskId = IF allDone THEN NoTask ELSE session_.activeTaskId]

\* the session once checkpoint has merged the hashes, released the claims
\* and gone back to IDLE
checkpointSession(session_, tasks_, hashes, allDone) ==
    [session_ EXCEPT
        !.lastKnownFileHashes = spread(session_.lastKnownFileHashes, hashes),
        !.activeClaims = refreshActiveClaims(tasks_),
        !.currentState = IDLE,
        !.activeStepId = NoStep,
        !.intentFiled = FALSE,
        !.isVerified = FALSE,
        !.activeTaskId = IF allDone THEN NoTask ELSE session_.activeTaskId]

\* variant: a note that was not written makes the checkpoint throw
noteFailure_thrown(gitNoteWritten) ==
    IF gitNoteWritten THEN NoError ELSE Error("L3 Git Note failed")

\* the error a note that was not written raises in checkpoint: none, since
\* getChangedFiles, isGitRepo and writeNote catch theirs and answer false
noteFailure(gitNoteWritten) == NoError

\* gitNoteWritten: outcome of getChangedFiles / isGitRepo / writeNote
\* the handler, run while the log has fewer than maxLog entries
checkpointWithin(summary, completedChecklistIds, gitNoteWritten, maxLog) ==
    LET op == [op |-> "dg_checkpoint", arg |-> completedChecklistIds]
        err == validateTransition("dg_checkpoint", <<EXECUTING>>)
        taskId == session.activeTaskId
    IN
    IF err # NoError THEN Throw(op, err)
    ELSE IF requireIntent # NoError THEN Throw(op, requireIntent)
    ELSE IF taskId = NoTask \/ taskId \notin DOMAIN tasks
    THEN Throw(op, Error("No active task found"))
    ELSE IF noteFailure(gitNoteWritten) # NoError
    THEN Throw(op, noteFailure(gitNoteWritten))
    ELSE
        /\ Len(logs) < maxLog
        /\ LET task == tasks[taskId]
               checklist == markDone(task.checklist, completedChecklistIds)
               allDone == \A i \in 1..Len(checklist) : checklist[i].status = "done"
               hashes == calculateFileHashes(pathsOf(task.claims))
           IN
           /\ git' = IF gitNoteWritten
                     THEN writeNote(git, noteMetadata(task, summary))
                     ELSE git
           /\ tasks' = [tasks EXCEPT ![taskId].checklist = checklist,
                                     ![taskId].claims = <<>>]
           /\ session' = checkpointSession(session, tasks', hashes, allDone)
           /\ logs' = log(logs, "dg_checkpoint", taskId, summary)
           /\ disk' = syncToDisk(session', tasks', logs')
           /\ call' = op
           /\ pre' = Snapshot
           /\ result' = Ok([status |-> "saved", taskId |-> taskId,
                            completedItems |-> countDone(checklist),
                            totalItems |-> Len(checklist),
                            gitNoteWritten |-> gitNoteWritten])
           /\ UNCHANGED <<files, now, suspended>>

checkpoint(summary, completedChecklistIds, gitNoteWritten) == checkpointWithin(summary, completedChecklistIds, gitNoteWritten, MaxLog)

\* variant: slice(0, n), the oldest entries
lastN_oldest(s, n) == IF Len(s) <= n THEN s ELSE SubSeq(s, 1, n)

\* Array.prototype.slice(-n)
lastN(s, n) == IF Len(s) <= n THEN s ELSE SubSeq(s, Len(s) - n + 1, Len(s))

\* the handler itself; panic below bounds the log for the model
panicHandler(reason) ==
    LET op == [op |-> "dg_panic", arg |-> reason]
        taskId == session.activeTaskId
    IN
    /\ session' = [session EXCEPT !.currentState = PANIC]
    /\ logs' = log(logs, "dg_panic", taskId, reason)
    /\ disk' = syncToDisk(session', tasks, logs')
    /\ call' = op
    /\ pre' = Snapshot
    /\ result' = Ok([currentTaskGoal |-> IF taskId # NoTask /\ taskId \in DOMAIN tasks
                                         THEN tasks[taskId].goal ELSE Undefined,
                     lastLogs |-> lastN(logs', 3),
                     panicReason |-> reason,
                     currentState |-> PANIC])
    /\ UNCHANGED <<tasks, files, git, now, suspended>>

panic(reason) ==
    /\ Len(logs) < MaxLog
    /\ panicHandler(reason)

\* variant: the intent is stored without the files to touch
fileIntent_noFiles(task, intent, filesToTouch) ==
    [task EXCEPT !.lastIntent = intent]

\* the active task after reportIntent stored the intent on it
fileIntent(task, intent, filesToTouch) ==
    [task EXCEPT !.lastIntent = intent, !.filesToTouch = filesToTouch]

\* the handler, run while the log has fewer than maxLog entries
reportIntentWithin(intent, filesToTouch, stepId, maxLog) ==
    LET op == [op |-> "dg_report_intent", arg |-> intent, filesToTouch |-> filesToTouch]
        err == validateTransition("dg_report_intent", <<PLANNING, IDLE>>)
        taskId == session.activeTaskId
    IN
    IF err # NoError THEN Throw(op, err)
    ELSE IF taskId = NoTask
    THEN Throw(op, Error("No active task. Use dg_propose_task first."))
    ELSE IF taskId \notin DOMAIN tasks
    THEN Throw(op, Error("TypeError: Cannot set properties of undefined"))
    ELSE
        /\ Len(logs) < maxLog
        /\ tasks' = [tasks EXCEPT ![taskId] = fileIntent(tasks[taskId], intent, filesToTouch)]
        /\ session' = [session EXCEPT !.activeStepId = stepId,
                                      !.currentState = EXECUTING,
                                      !.intentFiled = TRUE]
        /\ logs' = log(logs, "dg_report_intent", taskId, intent)
        /\ disk' = syncToDisk(session', tasks', logs')
        /\ call' = op
        /\ pre' = Snapshot
        /\ result' = Ok([taskId |-> taskId, stepId |-> stepId, state |-> EXECUTING])
        /\ UNCHANGED <<files, git, now, suspended>>

reportIntent(intent, filesToTouch, stepId) == reportIntentWithin(intent, filesToTouch, stepId, MaxLog)

\* success: whether the test command exited with code 0 within the timeout
verify(success) ==
    LET op == [op |-> "dg_verify"]
        err == validateTransition("dg_verify", <<EXECUTING>>)
        taskId == session.activeTaskId
    IN
    IF err # NoError THEN Throw(op, err)
    ELSE IF taskId = NoTask \/ taskId \notin DOMAIN tasks
    THEN Throw(op, Error("No active task found"))
    ELSE
        /\ Len(logs) < MaxLog
        /\ session' = [session EXCEPT !.isVerified = success]
        /\ logs' = log(logs, "dg_verify", taskId, IF success THEN "PASS" ELSE "FAIL")
        /\ disk' = syncToDisk(session', tasks, logs')
        /\ call' = op
        /\ pre' = Snapshot
        /\ result' = Ok([success |-> success, command |-> tasks[taskId].testCommand])
        /\ UNCHANGED <<tasks, files, git, now, suspended>>

explainChange ==
    LET op == [op |-> "dg_explain_change"]
        err == validateTransition("dg_explain_change", <<EXECUTING>>)
        taskId == session.activeTaskId
    IN
    IF err # NoError THEN Throw(op, err)
    ELSE IF taskId = NoTask \/ taskId \notin DOMAIN tasks
    THEN Throw(op, Error("No active task found"))
    ELSE
        /\ Len(logs) < MaxLog
        /\ logs' = log(logs, "dg_explain_change", taskId, "files changed")
        /\ call' = op
        /\ pre' = Snapshot
        /\ result' = Ok([intent |-> tasks[taskId].lastIntent,
                         verification |-> tasks[taskId].testCommand])
        /\ UNCHANGED <<session, tasks, disk, files, git, now, suspended>>

setTestCommand(command) ==
    LET op == [op |-> "dg_set_test_command", arg |-> command]
        taskId == session.activeTaskId
    IN
    IF taskId = NoTask \/ taskId \notin DOMAIN tasks
    THEN Throw(op, Error("No active task found"))
    ELSE
        /\ Len(logs) < MaxLog
        /\ tasks' = [tasks EXCEPT ![taskId].testCommand = command]
        /\ logs' = log(logs, "set_test_command", taskId, command)
        /\ disk' = syncToDisk(session, tasks', logs')
        /\ call' = op
        /\ pre' = Snapshot
        /\ result' = Ok(Undefined)
        /\ UNCHANGED <<session, files, git, now, suspended>>

\* the claim records of a request, as claimScope builds them
newClaimsOf(paths, exclusive, taskId, activeClaims) ==
    LET free == {i \in 1..Len(paths) : checkConflict(paths[i], taskId, activeClaims, tasks) = 0}
        RECURSIVE collect(_)
        collect(n) ==
            IF n = 0 THEN <<>>
            ELSE IF n \in free
                 THEN Append(collect(n - 1),
                             [path |-> paths[n], exclusive |-> exclusive, ownerTaskId |-> taskId])
                 ELSE collect(n - 1)
    IN  collect(Len(paths))

\* the conflicting claims of a request, one per conflicting path, in request order
conflictsOf(paths, taskId, activeClaims) ==
    LET RECURSIVE collect(_)
        collect(n) ==
            IF n = 0 THEN <<>>
            ELSE LET c == checkConflict(paths[n], taskId, activeClaims, tasks) IN
                 IF c # 0 THEN Append(collect(n - 1), activeClaims[c]) ELSE collect(n - 1)
    IN  collect(Len(paths))

\* variant: a single conflicting path does not reject the request
rejectsAll_several(conflicts) == Len(conflicts) > 1

\* "Reject ALL if any conflict exists"
rejectsAll(conflicts) == Len(conflicts) > 0

\* the handler, run while the log has fewer than maxLog entries
claimScopeWithin(paths, exclusive, maxLog) ==
    LET op == [op |-> "dg_claim_scope", arg |-> paths, exclusive |-> exclusive]
        taskId == session.activeTaskId
    IN
    IF taskId = NoTask THEN Throw(op, Error("No active task to claim scope for."))
    ELSE IF taskId \notin DOMAIN tasks
    THEN Throw(op, Error("TypeError: Cannot read properties of undefined"))
    ELSE
        LET allActiveClaims == session.activeClaims
            conflicts == conflictsOf(paths, taskId, allActiveClaims)
            newClaims == newClaimsOf(paths, exclusive, taskId, allActiveClaims)
        IN
        IF rejectsAll(conflicts)
        THEN /\ call' = op
             /\ pre' = Snapshot
             /\ result' = Ok([granted |-> FALSE, conflicts |-> conflicts])
             /\ UNCHANGED <<session, tasks, logs, disk, files, git, now, suspended>>
        ELSE /\ Len(logs) < maxLog
             /\ tasks' = [tasks EXCEPT ![taskId].claims = tasks[taskId].claims \o newClaims]
             /\ session' = [session EXCEPT
                     !.activeClaims = refreshActiveClaims(tasks'),
                     !.lastKnownFileHashes =
                         spread(session.lastKnownFileHashes,
                                calculateFileHashes(pathsOf(tasks'[taskId].claims)))]
             /\ logs' = log(logs, "dg_claim_scope", taskId, "Granted active claims")
             /\ disk' = syncToDisk(session', tasks', logs')
             /\ call' = op
             /\ pre' = Snapshot
             /\ result' = Ok([granted |-> TRUE, conflicts |-> <<>>])
             /\ UNCHANGED <<files, git, now, suspended>>

claimScope(paths, exclusive) == claimScopeWithin(paths, exclusive, MaxLog)

\* variant: the session switches to the child task
focusAfterDelegate_child(session_, subTaskId) ==
    [session_ EXCEPT !.activeTaskId = subTaskId]

\* the session once delegateTask has registered the child: focus and state
\* stay with the parent
focusAfterDelegate(session_, subTaskId) == session_

delegateTask(subTaskGoal, subScope) ==
    LET op == [op |-> "dg_delegate", arg |-> subScope]
        err == validateTransition("dg_delegate", <<EXECUTING>>)
        parentTaskId == session.activeTaskId
    IN
    IF err # NoError THEN Throw(op, err)
    ELSE IF parentTaskId \notin DOMAIN tasks
    THEN Throw(op, Error("TypeError: Cannot read properties of undefined"))
    ELSE
        LET parentTask == tasks[parentTaskId]
            parentClaims == pathsOf(parentTask.claims)
        IN
        IF ~validateDelegation(parentClaims, subScope) /\ Len(parentClaims) > 0
        THEN /\ call' = op
             /\ pre' = Snapshot
             /\ result' = Error("Delegation Failed: Child scope is not contained within Parent's active claims.")
             /\ UNCHANGED <<session, tasks, logs, disk, files, git, now, suspended>>
        ELSE
            /\ Len(tasks) < MaxTasks
            /\ Len(logs) < MaxLog
            /\ LET subTaskId == Len(tasks) + 1
                   subTask ==
                       [taskId |-> subTaskId,
                        goal |-> subTaskGoal,
                        allowedScopes |-> subScope,
                        checklist |-> <<>>,
                        strictness |-> parentTask.strictness,
                        parentTaskId |-> parentTaskId,
                        subTaskIds |-> <<>>,
                        claims |-> <<>>,
                        lastIntent |-> Undefined,
                        filesToTouch |-> <<>>,
                        testCommand |-> Undefined,
                        riskScore |-> NoRisk]
               IN
               /\ tasks' = Append([tasks EXCEPT ![parentTaskId].subTaskIds =
                                       Append(parentTask.subTaskIds, subTaskId)],
                                  subTask)
               /\ logs' = log(logs, "dg_delegate", parentTaskId, "Delegated sub-task")
               /\ session' = focusAfterDelegate(session, subTaskId)
               /\ disk' = syncToDisk(session', tasks', logs')
               /\ call' = op
               /\ pre' = Snapshot
               /\ result' = Ok(subTask)
               /\ UNCHANGED <<files, git, now, suspended>>

Max(a, b) == IF a >= b THEN a ELSE b
Min(a, b) == IF a <= b THEN a ELSE b

\* variant: the cap at 100 is applied before the deduction for test files
calculateRisk_capFirst(commitCount, authors, isTest) ==
    LET capped == Min(100, (commitCount * 2) + (authors * 5))
    IN  IF isTest THEN Max(0, capped - 20) ELSE capped

\* RiskAnalyzer.calculateRisk from the commit count, the distinct authors
\* and whether the path contains "test" or "spec"
calculateRisk(commitCount, authors, isTest) ==
    LET base == (commitCount * 2) + (authors * 5)
        score == IF isTest THEN Max(0, base - 20) ELSE base
    IN  Min(100, score)

analyzeRisk(r) ==
    LET op == [op |-> "dg_analyze_risk", arg |-> r]
        score == calculateRisk(r.commitCount, r.authors, r.isTest)
        taskId == session.activeTaskId
    IN
    IF taskId # NoTask /\ taskId \notin DOMAIN tasks
    THEN Throw(op, Error("TypeError: Cannot read properties of undefined"))
    ELSE
    /\ tasks' = IF taskId # NoTask
                THEN [tasks EXCEPT ![taskId].riskScore =
                         Max(IF tasks[taskId].riskScore = NoRisk THEN 0
                             ELSE tasks[taskId].riskScore, score)]
                ELSE tasks
    /\ call' = op
    /\ pre' = Snapshot
    /\ result' = Ok([score |-> score])
    /\ UNCHANGED <<session, logs, disk, files, git, now, suspended>>

\* variant: deleted files are not looked for
dirtyFilesOf_noDeleted(currentHashes, knownHashes, patterns) ==
    {<<f, "NEW">> : f \in {g \in DOMAIN currentHashes : g \notin DOMAIN knownHashes}}
    \cup {<<f, "MODIFIED">> : f \in {g \in DOMAIN currentHashes :
                g \in DOMAIN knownHashes /\ knownHashes[g] # currentHashes[g]}}

\* the files healthCheck reports, each with its annotation
dirtyFilesOf(currentHashes, knownHashes, patterns) ==
    {<<f, "NEW">> : f \in {g \in DOMAIN currentHashes : g \notin DOMAIN knownHashes}}
    \cup {<<f, "MODIFIED">> : f \in {g \in DOMAIN currentHashes :
                g \in DOMAIN knownHashes /\ knownHashes[g] # currentHashes[g]}}
    \cup {<<f, "DELETED">> : f \in {g \in DOMAIN knownHashes :
                /\ g \notin DOMAIN currentHashes
                /\ \E i \in 1..Len(patterns) : minimatch(g, patterns[i])}}

\* the call that has just returned was a claimScope that was granted
afterGrant ==
    call.op = "dg_claim_scope" /\ result.kind = "ok" /\ result.value.granted

healthCheck ==
    LET op == [op |-> "dg_health_check", afterGrant |-> afterGrant]
        claims == session.activeClaims
        patterns == pathsOf(claims)
        currentHashes == calculateFileHashes(patterns)
        knownHashes == session.lastKnownFileHashes
        dirtyFiles == dirtyFilesOf(currentHashes, knownHashes, patterns)
    IN
    /\ call' = op
    /\ pre' = Snapshot
    /\ result' = IF Len(claims) = 0 THEN Ok([status |-> "NO_CLAIMS", dirtyFiles |-> {}])
                 ELSE IF dirtyFiles # {} THEN Ok([status |-> "DIRTY", dirtyFiles |-> dirtyFiles])
                 ELSE Ok([status |-> "CLEAN", dirtyFiles |-> {}])
    /\ UNCHANGED <<session, tasks, logs, disk, files, git, now, suspended>>

\* an edit made outside any tracked operation: a file is written with a new
\* content, created or deleted
editFile(f, content) ==
    /\ files[f] # content
    /\ files' = [files EXCEPT ![f] = content]
    /\ call' = [op |-> "fs.writeFileSync"]
    /\ pre' = Snapshot
    /\ result' = NoError
    /\ UNCHANGED <<session, tasks, logs, disk, git, now, suspended>>

\* the log after `this.state = parsed`: the parsed one; the entries pushed on
\* the replaced state go with it
restoredLogs(logs_, parsed) == parsed.logs

hydrate ==
    LET op == [op |-> "hydrate"]
        \* the version check logs on the state that is about to be replaced
        noted == IF disk.version # STATE_VERSION
                 THEN log(logs, "hydrate", NoTask, "Version mismatch")
                 ELSE logs
    IN
    IF disk = NoFile
    THEN /\ call' = op
         /\ pre' = Snapshot
         /\ result' = Ok(FALSE)
         /\ UNCHANGED <<session, tasks, logs, disk, files, git, now, suspended>>
    ELSE /\ Len(disk.logs) < MaxLog
         /\ session' = disk.session
         /\ tasks' = disk.tasks
         /\ logs' = log(restoredLogs(noted, disk), "hydrate", NoTask,
                        "Session restored from disk")
         /\ call' = op
         /\ pre' = Snapshot
         /\ result' = Ok(TRUE)
         /\ UNCHANGED <<disk, files, git, now, suspended>>

initialize ==
    LET op == [op |-> "dg_init"]
        exists == disk # NoFile
        session0 == IF exists THEN disk.session ELSE createInitialSession
        tasks0 == IF exists THEN disk.tasks ELSE <<>>
        logs0 == IF exists
                 THEN log(disk.logs, "hydrate", NoTask, "Session restored from disk")
                 ELSE <<>>
    IN
    /\ Len(logs0) < MaxLog
    /\ session' = session0
    /\ tasks' = tasks0
    /\ logs' = log(logs0, "dg_init", NoTask, "Initialized")
    /\ disk' = syncToDisk(session', tasks', logs')
    /\ call' = op
    /\ pre' = Snapshot
    /\ result' = Ok([status |-> IF exists THEN "exists" ELSE "created"])
    /\ UNCHANGED <<files, git, now, suspended>>

reset ==
    /\ session' = createInitialSession
    /\ tasks' = <<>>
    /\ logs' = log(<<>>, "reset", NoTask, "State reset")
    /\ disk' = syncToDisk(session', tasks', logs')
    /\ call' = [op |-> "dg_reset"]
    /\ pre' = Snapshot
    /\ result' = Ok(Undefined)
    /\ UNCHANGED <<files, git, now, suspended>>

-----------------------------------------------------------------------------
(* Inputs of the scope and risk operations *)

Requests ==
    {[paths |-> <<SrcAll>>, exclusive |-> TRUE],
     [paths |-> <<SrcAll>>, exclusive |-> FALSE],
     [paths |-> <<SrcIndex, DocsAll>>, exclusive |-> TRUE],
     [paths |-> <<DocsAll>>, exclusive |-> FALSE]}
SubScopes == {<<SrcIndex>>, <<SrcIndex, DocsAll>>}
RiskInputs == {[commitCount |-> 40, authors |-> 5, isTest |-> TRUE]}

Next ==
    \/ \E p \in Proposals : proposeTask(p)
    \/ \E stepId \in StepIds : beginStep(stepId)
    \/ \E ids \in CompletedIds : checkpoint("summary", ids, FALSE)
    \/ panic("reason")
    \/ \E i \in Intents, stepId \in StepIds : reportIntent(i, <<SrcIndex>>, stepId)
    \/ \E success \in BOOLEAN : verify(success)
    \/ explainChange
    \/ setTestCommand("npm test")
    \/ \E r \in Requests : claimScope(r.paths, r.exclusive)
    \/ \E subScope \in SubScopes : delegateTask("G4", subScope)
    \/ healthCheck
    \/ reset

Spec == Init /\ [][Next]_vars

\* the state directory is removed behind the engine's back
removeStateDir ==
    /\ disk # NoFile
    /\ disk' = NoFile
    /\ call' = [op |-> "fs.rmSync"]
    /\ pre' = Snapshot
    /\ result' = NoError
    /\ UNCHANGED <<session, tasks, logs, files, git, now, suspended>>

RestartProposals == {p \in Proposals : p.goal = "G1"}
RestartRequests == {r \in Requests : r.exclusive}

\* every operation, with the restore from disk, a restart of the
\* initialisation and the loss of the state directory
NextRestart ==
    \/ \E p \in RestartProposals : proposeTask(p)
    \/ \E stepId \in StepIds : beginStep(stepId)
    \/ \E i \in Intents, stepId \in StepIds : reportIntent(i, <<SrcIndex>>, stepId)
    \/ \E ids \in CompletedIds : checkpoint("summary", ids, FALSE)
    \/ verify(TRUE)
    \/ explainChange
    \/ setTestCommand("npm test")
    \/ \E r \in RestartRequests : claimScope(r.paths, r.exclusive)
    \/ \E subScope \in SubScopes : delegateTask("G4", subScope)
    \/ \E r \in RiskInputs : analyzeRisk(r)
    \/ healthCheck
    \/ panic("reason")
    \/ hydrate
    \/ initialize
    \/ removeStateDir
    \/ reset

SpecRestart == Init /\ [][NextRestart]_vars

DriftProposals == {p \in Proposals : p.goal = "G1"}
DriftRequests == {r \in Requests : Len(r.paths) = 1}

\* claims, checkpoints and health checks with edits of the working tree made
\* behind the engine's back
NextDrift ==
    \/ \E p \in DriftProposals : proposeTask(p)
    \/ \E i \in Intents, stepId \in StepIds : reportIntent(i, <<SrcIndex>>, stepId)
    \/ \E ids \in CompletedIds : checkpoint("summary", ids, TRUE)
    \/ \E r \in DriftRequests : claimScope(r.paths, r.exclusive)
    \/ healthCheck
    \/ \E f \in Files, content \in Contents \cup {Absent} : editFile(f, content)

SpecDrift == Init /\ [][NextDrift]_vars

\* the same with risk analysis, which updates a task without logging or saving
NextRisk ==
    \/ Next
    \/ \E r \in RiskInputs : analyzeRisk(r)

SpecRisk == Init /\ [][NextRisk]_vars

-----------------------------------------------------------------------------
(* The risk score over the commit counts and author counts git log can give *)

\* git log --max-count 100
MAX_COUNT == 100

\* the distinct authors of commitCount commits are at most that many, and
\* at least one when there is a commit
ScoreInputs ==
    {r \in [commitCount : 0..MAX_COUNT, authors : 0..MaxAuthors, isTest : BOOLEAN] :
        /\ r.authors <= r.commitCount
        /\ r.commitCount > 0 => r.authors > 0}

NextScore == \E r \in ScoreInputs : analyzeRisk(r)

SpecScore == Init /\ [][NextScore]_vars

-----------------------------------------------------------------------------
(* Several tasks holding claims at once: a longer run of the four operations
   that propose, claim, declare and checkpoint *)

ReleaseProposals == {p \in Proposals : p.goal = "G1"}
ReleaseRequests == {r \in Requests : ~r.exclusive}

NextRelease ==
    \/ \E p \in ReleaseProposals :
          proposeTaskWithin(p, MaxLongLog)
    \/ \E r \in ReleaseRequests :
          claimScopeWithin(r.paths, r.exclusive, MaxLongLog)
    \/ \E i \in Intents, stepId \in StepIds :
          reportIntentWithin(i, <<SrcIndex>>, stepId, MaxLongLog)
    \/ \E ids \in CompletedIds :
          checkpointWithin("summary", ids, FALSE, MaxLongLog)

SpecRelease == Init /\ [][NextRelease]_vars

-----------------------------------------------------------------------------
(* Drift reported, then accepted: the agent checkpoints only in answer to a
   health check that reported DIRTY *)

DirtyReported == call.op = "dg_health_check" /\ result.value.status = "DIRTY"

BaselineRequests == {r \in Requests : r.paths = <<SrcAll>> /\ ~r.exclusive}

NextBaseline ==
    \/ \E p \in ReleaseProposals :
          proposeTaskWithin(p, MaxLongLog)
    \/ \E r \in BaselineRequests :
          claimScopeWithin(r.paths, r.exclusive, MaxLongLog)
    \/ \E i \in Intents, stepId \in StepIds :
          reportIntentWithin(i, <<SrcIndex>>, stepId, MaxLongLog)
    \/ /\ DirtyReported
       /\ checkpointWithin("summary", {}, FALSE, MaxLongLog)
    \/ healthCheck
    \/ \E f \in Files, content \in Contents \cup {Absent} : editFile(f, content)

SpecBaseline == Init /\ [][NextBaseline]_vars

-----------------------------------------------------------------------------
(* Restart on a snapshot left by another version of the engine *)

\* tasks.json as an engine of another version wrote it
otherVersionSnapshot ==
    /\ disk # NoFile
    /\ disk.version = STATE_VERSION
    /\ disk' = [disk EXCEPT !.version = OLDER_VERSION]
    /\ call' = [op |-> "fs.writeFile"]
    /\ pre' = Snapshot
    /\ result' = NoError
    /\ UNCHANGED <<session, tasks, logs, files, git, now, suspended>>

NextUpgrade ==
    \/ \E p \in Proposals : proposeTask(p)
    \/ \E i \in Intents, stepId \in StepIds : reportIntent(i, <<SrcIndex>>, stepId)
    \/ \E ids \in CompletedIds : checkpoint("summary", ids, FALSE)
    \/ explainChange
    \/ panic("reason")
    \/ hydrate
    \/ otherVersionSnapshot

SpecUpgrade == Init /\ [][NextUpgrade]_vars

-----------------------------------------------------------------------------
(* The audit notes: checkpoints, commits and the passing of time *)

getTimeline(limit) ==
    LET history == reconstructHistory(git) IN
    /\ call' = [op |-> "dg_get_timeline", arg |-> limit]
    /\ pre' = Snapshot
    /\ result' = Ok(SubSeq(history, 1, Min(limit, Len(history))))
    /\ UNCHANGED <<session, tasks, logs, disk, files, git, now, suspended>>

\* git commit, made by the agent or the user between two operations
gitCommit ==
    /\ git.head < MaxCommits
    /\ git' = [git EXCEPT !.head = @ + 1]
    /\ call' = [op |-> "git commit"]
    /\ pre' = Snapshot
    /\ result' = NoError
    /\ UNCHANGED <<session, tasks, logs, disk, files, now, suspended>>

\* time passes
tick ==
    /\ now < MaxTime
    /\ now' = now + 1
    /\ call' = [op |-> "tick"]
    /\ pre' = Snapshot
    /\ result' = NoError
    /\ UNCHANGED <<session, tasks, logs, disk, files, git, suspended>>

NotesProposals == {p \in Proposals : p.goal = "G1"}

NextNotes ==
    \/ \E p \in NotesProposals : proposeTask(p)
    \/ \E i \in Intents : reportIntent(i, <<SrcIndex>>, "step_a")
    \/ \E ids \in CompletedIds, w \in BOOLEAN : checkpoint("summary", ids, w)
    \/ getTimeline(10)
    \/ gitCommit
    \/ tick
    \/ reset

SpecNotes == Init /\ [][NextNotes]_vars

-----------------------------------------------------------------------------
(* Operations as the event loop runs them: a handler runs up to its first
   await, and other handlers run before it is resumed. *)

Pending == [kind |-> "pending"]

\* checkpoint up to `await gitManager.getChangedFiles()`
checkpointBegin(summary, completedChecklistIds) ==
    LET op == [op |-> "dg_checkpoint", arg |-> completedChecklistIds]
        err == validateTransition("dg_checkpoint", <<EXECUTING>>)
        taskId == session.activeTaskId
    IN
    /\ suspended = NoOp
    /\ IF err # NoError THEN Throw(op, err)
       ELSE IF requireIntent # NoError THEN Throw(op, requireIntent)
       ELSE IF taskId = NoTask \/ taskId \notin DOMAIN tasks
       THEN Throw(op, Error("No active task found"))
       ELSE
           LET checklist == markDone(tasks[taskId].checklist, completedChecklistIds) IN
           /\ tasks' = [tasks EXCEPT ![taskId].checklist = checklist]
           /\ suspended' =
                  [op |-> "dg_checkpoint", arg |-> completedChecklistIds,
                   taskId |-> taskId, summary |-> summary,
                   allDone |-> \A i \in 1..Len(checklist) : checklist[i].status = "done",
                   completedItems |-> countDone(checklist),
                   totalItems |-> Len(checklist)]
           /\ call' = op
           /\ pre' = Snapshot
           /\ result' = Pending
           /\ UNCHANGED <<session, logs, disk, files, git, now>>

\* checkpoint from the note to its return, run while the log has fewer than
\* maxLog entries
checkpointResumeWithin(gitNoteWritten, maxLog) ==
    /\ suspended.op = "dg_checkpoint"
    /\ Len(logs) < maxLog
    /\ LET taskId == suspended.taskId
           task == tasks[taskId]
           hashes == calculateFileHashes(pathsOf(task.claims))
       IN
       /\ git' = IF gitNoteWritten
                 THEN writeNote(git, noteMetadata(task, suspended.summary))
                 ELSE git
       /\ tasks' = [tasks EXCEPT ![taskId].claims = <<>>]
       /\ session' = checkpointSession(session, tasks', hashes, suspended.allDone)
       /\ logs' = log(logs, "dg_checkpoint", taskId, suspended.summary)
       /\ disk' = syncToDisk(session', tasks', logs')
       /\ suspended' = NoOp
       /\ call' = [op |-> "dg_checkpoint", arg |-> suspended.arg]
       /\ pre' = Snapshot
       /\ result' = Ok([status |-> "saved", taskId |-> taskId,
                        completedItems |-> suspended.completedItems,
                        totalItems |-> suspended.totalItems,
                        gitNoteWritten |-> gitNoteWritten])
       /\ UNCHANGED <<files, now>>

checkpointResume(gitNoteWritten) == checkpointResumeWithin(gitNoteWritten, MaxLog)

\* verify up to `await execAsync(command)`
verifyBegin ==
    LET op == [op |-> "dg_verify"]
        err == validateTransition("dg_verify", <<EXECUTING>>)
        taskId == session.activeTaskId
    IN
    /\ suspended = NoOp
    /\ IF err # NoError THEN Throw(op, err)
       ELSE IF taskId = NoTask \/ taskId \notin DOMAIN tasks
       THEN Throw(op, Error("No active task found"))
       ELSE
           /\ suspended' = [op |-> "dg_verify", taskId |-> taskId,
                            command |-> tasks[taskId].testCommand]
           /\ call' = op
           /\ pre' = Snapshot
           /\ result' = Pending
           /\ UNCHANGED <<session, tasks, logs, disk, files, git, now>>

\* verify from the command's exit to its return
verifyResume(success) ==
    /\ suspended.op = "dg_verify"
    /\ Len(logs) < MaxLog
    /\ session' = [session EXCEPT !.isVerified = success]
    /\ logs' = log(logs, "dg_verify", suspended.taskId, IF success THEN "PASS" ELSE "FAIL")
    /\ disk' = syncToDisk(session', tasks, logs')
    /\ suspended' = NoOp
    /\ call' = [op |-> "dg_verify"]
    /\ pre' = Snapshot
    /\ result' = Ok([success |-> success, command |-> suspended.command])
    /\ UNCHANGED <<tasks, files, git, now>>

NextAsync ==
    \/ \E p \in Proposals : proposeTask(p)
    \/ \E i \in Intents, stepId \in StepIds : reportIntent(i, <<SrcIndex>>, stepId)
    \/ \E r \in Requests : claimScope(r.paths, r.exclusive)
    \/ setTestCommand("npm test")
    \/ \E ids \in CompletedIds : checkpointBegin("summary", ids)
    \/ \E w \in BOOLEAN : checkpointResume(w)
    \/ verifyBegin
    \/ \E success \in BOOLEAN : verifyResume(success)
    \/ panic("reason")

SpecAsync == Init /\ [][NextAsync]_vars

-----
(* The log under a long run of logging calls: the caller numbers its panic
   reasons, so that the n-th entry logged carries n. *)

nextSeq == IF call.op = "dg_panic" THEN call.arg + 1 ELSE 1

NextLog ==
    \E n \in 1..MaxAppends : n = nextSeq /\ panicHandler(n)

SpecLog == Init /\ [][NextLog]_vars

-----------------------------------------------------------------------------
(* The transition table: properties of the guarded actions *)

\* the allowed-from set of every guarded action
TransitionTable ==
    [dg_propose_task   |-> {IDLE},
     dg_begin_step     |-> {PLANNING, IDLE},
     dg_report_intent  |-> {PLANNING, IDLE},
     dg_checkpoint     |-> {EXECUTING},
     dg_verify         |-> {EXECUTING},
     dg_explain_change |-> {EXECUTING},
     dg_delegate       |-> {EXECUTING}]

Guarded == DOMAIN TransitionTable

toSet(arr) == {arr[i] : i \in 1..Len(arr)}

\* the last call left session, tasks and logs as they were
Untouched == session = pre.session /\ tasks = pre.tasks /\ logs = pre.logs

\* the last call was a guarded action made in / outside its allowed-from set
CalledInside == call.op \in Guarded /\ pre.session.currentState \in TransitionTable[call.op]
CalledOutside == call.op \in Guarded /\ pre.session.currentState \notin TransitionTable[call.op]

\* C1: a guarded action invoked outside its allowed-from set raises a
\* StateTransitionError that carries the action name, the current state and
\* the allowed set, and leaves session, tasks and logs unchanged.
C1_OutsideAllowedSetRejected ==
    CalledOutside =>
        /\ result.kind = "StateTransitionError"
        /\ result.action = call.op
        /\ result.fromState = pre.session.currentState
        /\ toSet(result.allowedFromStates) = TransitionTable[call.op]
        /\ Untouched

\* a checkpoint refused in PANIC although the intent had been filed
C1_Witness ==
    /\ call.op = "dg_checkpoint"
    /\ pre.session.currentState = PANIC
    /\ pre.session.intentFiled
    /\ result.kind = "StateTransitionError"

\* what an action needs, beyond the state guard, to return normally
FurtherPreconditions ==
    CASE call.op \in {"dg_begin_step", "dg_report_intent"} ->
            pre.session.activeTaskId # NoTask
      [] call.op = "dg_checkpoint" ->
            pre.session.intentFiled
      [] call.op = "dg_delegate" ->
            LET parentClaims == pathsOf(pre.tasks[pre.session.activeTaskId].claims) IN
            Len(parentClaims) = 0 \/ validateDelegation(parentClaims, call.arg)
      [] OTHER -> TRUE

\* C2 as stated: every guarded action invoked inside its allowed-from set
\* succeeds, no error is raised.
C2_InsideAllowedSetSucceeds ==
    CalledInside => result.kind = "ok"

\* C2: a guarded action invoked inside its allowed-from set never raises a
\* StateTransitionError, and it returns normally exactly when its further
\* preconditions hold: an active task for beginStep and reportIntent, a filed
\* intent for checkpoint (IntentMissingError otherwise), a sub-scope inside
\* the parent's claims for delegateTask when the parent holds any.
C2_InsideAllowedSetPassesGuard ==
    CalledInside =>
        /\ result.kind # "StateTransitionError"
        /\ result.kind = "ok" <=> FurtherPreconditions
        /\ (call.op = "dg_checkpoint" /\ result.kind # "ok") => result = IntentMissingError
        /\ (call.op # "dg_checkpoint" /\ result.kind # "ok") => result.kind = "Error" /\ Untouched

\* a delegation accepted in EXECUTING after the containment check ran
C2_Witness ==
    /\ call.op = "dg_delegate"
    /\ pre.session.currentState = EXECUTING
    /\ Len(pre.tasks[pre.session.activeTaskId].claims) > 0
    /\ result.kind = "ok"

\* C3: a successful proposeTask registers a new task whose checklist items
\* are all 'todo', makes it the active task and moves the session from IDLE
\* to PLANNING.
C3_ProposeEntersPlanning ==
    (call.op = "dg_propose_task" /\ result.kind = "ok") =>
        /\ Len(tasks) = Len(pre.tasks) + 1
        /\ \A i \in 1..Len(tasks[Len(tasks)].checklist) :
              tasks[Len(tasks)].checklist[i].status = "todo"
        /\ session.activeTaskId = Len(tasks)
        /\ pre.session.currentState = IDLE
        /\ session.currentState = PLANNING

\* C4 as stated: checkpoint raises IntentMissingError whenever intentFiled is
\* false, whatever the state.
C4_NoIntentAlwaysIntentMissing ==
    (call.op = "dg_checkpoint" /\ ~pre.session.intentFiled) =>
        result = IntentMissingError

\* C4: checkpoint raises IntentMissingError whenever intentFiled is false and
\* the session is EXECUTING, changing nothing; outside EXECUTING the state
\* guard comes first and checkpoint raises StateTransitionError, as it does
\* right after proposeTask.
C4_IntentGateBehindStateGuard ==
    call.op = "dg_checkpoint" =>
        /\ (pre.session.currentState = EXECUTING /\ ~pre.session.intentFiled)
              => (result = IntentMissingError /\ Untouched)
        /\ pre.session.currentState # EXECUTING
              => result.kind = "StateTransitionError"

\* a checkpoint refused in EXECUTING because no intent was filed
C4_Witness ==
    /\ call.op = "dg_checkpoint"
    /\ pre.session.currentState = EXECUTING
    /\ ~pre.session.intentFiled
    /\ result = IntentMissingError

-----------------------------------------------------------------------------
(* Intent, checkpoint and the scope coordinator *)

\* C5: reportIntent called in PLANNING or IDLE with an active task stores
\* the intent and the files on the active task, sets a new active step id,
\* sets intentFiled and moves to EXECUTING; no other field of the session,
\* no other task and no claim changes.
C5_ReportIntentEffects ==
    (/\ call.op = "dg_report_intent"
     /\ pre.session.currentState \in {PLANNING, IDLE}
     /\ pre.session.activeTaskId # NoTask) =>
        LET t == pre.session.activeTaskId IN
        /\ result.kind = "ok"
        /\ tasks = [pre.tasks EXCEPT ![t].lastIntent = call.arg,
                                     ![t].filesToTouch = call.filesToTouch]
        /\ session.activeStepId = result.value.stepId
        /\ session.activeStepId # pre.session.activeStepId
        /\ session = [pre.session EXCEPT !.activeStepId = result.value.stepId,
                                         !.intentFiled = TRUE,
                                         !.currentState = EXECUTING]

\* an intent filed while a second task and a claim exist
C5_Witness ==
    /\ call.op = "dg_report_intent"
    /\ result.kind = "ok"
    /\ Len(tasks) >= 2
    /\ Len(session.activeClaims) > 0
    /\ session.intentFiled

\* C6: a successful checkpoint marks done exactly the listed ids that exist
\* in the checklist, ignoring unknown ids, reports completedItems and
\* totalItems, returns to IDLE, clears intentFiled, isVerified and the active
\* step, and clears the active task if and only if every item is done.
C6_CheckpointEffects ==
    (call.op = "dg_checkpoint" /\ result.kind = "ok") =>
        LET t == pre.session.activeTaskId
            before == pre.tasks[t].checklist
            after == tasks[t].checklist
            done == {i \in 1..Len(after) : after[i].status = "done"}
        IN
        /\ Len(after) = Len(before)
        /\ \A i \in 1..Len(after) :
              /\ after[i].id = before[i].id
              /\ i \in done <=> (before[i].status = "done" \/ before[i].id \in call.arg)
              /\ i \notin done => after[i] = before[i]
        /\ result.value.completedItems = Cardinality(done)
        /\ result.value.totalItems = Len(after)
        /\ session.currentState = IDLE
        /\ ~session.intentFiled
        /\ ~session.isVerified
        /\ session.activeStepId = NoStep
        /\ session.activeTaskId = (IF Cardinality(done) = Len(after) THEN NoTask ELSE t)

\* a verified step saved with a known and an unknown id, one item left
C6_Witness ==
    /\ call.op = "dg_checkpoint"
    /\ result.kind = "ok"
    /\ call.arg = {"1", "9"}
    /\ pre.session.isVerified
    /\ result.value.completedItems = 1
    /\ result.value.totalItems = 2
    /\ session.activeTaskId = pre.session.activeTaskId

\* C7: the checkpoint called after a successful beginStep, which left the
\* session in EXECUTING, succeeds with status 'saved' and returns the
\* session to IDLE.
C7_CheckpointAfterBeginStep ==
    (/\ call.op = "dg_checkpoint"
     /\ Len(pre.logs) > 0
     /\ pre.logs[Len(pre.logs)].action = "dg_begin_step"
     /\ pre.session.currentState = EXECUTING) =>
        /\ result.kind = "ok"
        /\ result.value.status = "saved"
        /\ session.currentState = IDLE

\* the last claimScope call found a conflict for one of its paths
ConflictFound ==
    /\ call.op = "dg_claim_scope"
    /\ pre.session.activeTaskId # NoTask
    /\ \E i \in 1..Len(call.arg) :
          checkConflict(call.arg[i], pre.session.activeTaskId,
                        pre.session.activeClaims, pre.tasks) # 0

\* C8: claimScope is all-or-nothing: when one requested path conflicts the
\* call returns granted = false with the conflicting claims, no task gains a
\* claim, and the active-claim cache and the last-known hashes are unchanged.
C8_ClaimScopeAllOrNothing ==
    ConflictFound =>
        /\ result.kind = "ok"
        /\ ~result.value.granted
        /\ Len(result.value.conflicts) > 0
        /\ \A k \in 1..Len(result.value.conflicts) :
              /\ includes(pre.session.activeClaims, result.value.conflicts[k])
              /\ \E i \in 1..Len(call.arg) :
                    checkOverlap(call.arg[i], result.value.conflicts[k].path)
        /\ tasks = pre.tasks
        /\ session.activeClaims = pre.session.activeClaims
        /\ session.lastKnownFileHashes = pre.session.lastKnownFileHashes

\* a request of two paths rejected for one of them
C8_Witness ==
    /\ ConflictFound
    /\ Len(call.arg) = 2
    /\ Len(result.value.conflicts) = 1
    /\ ~result.value.granted

\* C9: a request, exclusive or not, whose paths overlap only non-exclusive
\* claims of other tasks is granted: only an exclusive existing claim
\* conflicts.
C9_SharedOverlapGranted ==
    (/\ call.op = "dg_claim_scope"
     /\ pre.session.activeTaskId # NoTask
     /\ \A i \in 1..Len(call.arg), k \in 1..Len(pre.session.activeClaims) :
           checkOverlap(call.arg[i], pre.session.activeClaims[k].path)
               => ~pre.session.activeClaims[k].exclusive) =>
        /\ result.kind = "ok"
        /\ result.value.granted

\* task u is neither the owner of claim C nor a direct child of the owner
Unrelated(u, C) == u # C.ownerTaskId /\ tasks[u].parentTaskId # C.ownerTaskId

\* C10: for every exclusive claim C in the active-claim cache, no task other
\* than C's owner or a direct child of the owner holds a claim that overlaps
\* C, whichever of the two was granted first.
C10_ExclusiveClaimsLock ==
    \A k \in 1..Len(session.activeClaims) :
        LET C == session.activeClaims[k] IN
        C.exclusive =>
            /\ \A u \in 1..Len(tasks) : \A j \in 1..Len(tasks[u].claims) :
                  Unrelated(u, C) => ~checkOverlap(C.path, tasks[u].claims[j].path)
            /\ \A j \in 1..Len(session.activeClaims) :
                  Unrelated(session.activeClaims[j].ownerTaskId, C)
                      => ~checkOverlap(C.path, session.activeClaims[j].path)

\* an exclusive claim and a claim of another task side by side
C10_Witness ==
    \E k, j \in 1..Len(session.activeClaims) :
        /\ session.activeClaims[k].exclusive
        /\ session.activeClaims[j].ownerTaskId # session.activeClaims[k].ownerTaskId

-----------------------------------------------------------------------------
(* Delegation *)

\* the sub-scope of the last call is covered by the claims the parent held
ChildScopeCovered ==
    LET held == pre.tasks[pre.session.activeTaskId].claims IN
    \A c \in 1..Len(call.arg) :
        \E p \in 1..Len(held) :
            call.arg[c] = held[p].path \/ minimatch(call.arg[c], held[p].path)

\* C11: delegateTask called in EXECUTING succeeds if and only if the parent
\* holds no claim or every child scope path is identical to or matched by a
\* pattern the parent has claimed; otherwise it fails with an explicit error
\* and creates no task.
C11_DelegationContained ==
    (call.op = "dg_delegate" /\ pre.session.currentState = EXECUTING) =>
        LET parent == pre.session.activeTaskId IN
        /\ result.kind = "ok"
              <=> (Len(pre.tasks[parent].claims) = 0 \/ ChildScopeCovered)
        /\ result.kind = "ok" =>
              /\ Len(tasks) = Len(pre.tasks) + 1
              /\ tasks[Len(tasks)].parentTaskId = parent
              /\ tasks[Len(tasks)].allowedScopes = call.arg
              /\ tasks[parent].subTaskIds = Append(pre.tasks[parent].subTaskIds, Len(tasks))
        /\ result.kind # "ok" =>
              /\ result.kind = "Error"
              /\ tasks = pre.tasks
              /\ session = pre.session

\* a delegation refused because one of two child paths lies outside the
\* parent's claims
C11_Witness ==
    /\ call.op = "dg_delegate"
    /\ pre.session.currentState = EXECUTING
    /\ Len(call.arg) = 2
    /\ Len(pre.tasks[pre.session.activeTaskId].claims) > 0
    /\ result.kind = "Error"

-----------------------------------------------------------------------------
(* The integrity monitor *)

\* the last call was a health check
HealthChecked == call.op = "dg_health_check"

\* file f is in the scope of an active claim
InClaimedScope(f) ==
    \E k \in 1..Len(session.activeClaims) : minimatch(f, session.activeClaims[k].path)

\* the drift of the working tree against the last-known hashes
DriftNew ==
    {f \in Files : /\ files[f] # Absent
                   /\ InClaimedScope(f)
                   /\ f \notin DOMAIN session.lastKnownFileHashes}
DriftModified ==
    {f \in Files : /\ files[f] # Absent
                   /\ InClaimedScope(f)
                   /\ f \in DOMAIN session.lastKnownFileHashes
                   /\ session.lastKnownFileHashes[f] # md5(files[f])}
DriftDeleted ==
    {f \in DOMAIN session.lastKnownFileHashes : files[f] = Absent /\ InClaimedScope(f)}

\* C12: a healthCheck called immediately after a granted claimScope, with no
\* file created, modified or deleted in between, returns CLEAN, whatever the
\* earlier operations and the earlier file changes were.
C12_CleanRightAfterGrant ==
    (HealthChecked /\ call.afterGrant) => result.value.status = "CLEAN"

-----------------------------------------------------------------------------
(* Panic, restore and the task registry *)

\* the last call was an initialize that found no state directory
InitializedAfresh == call.op = "dg_init" /\ result.value.status = "created"

\* the last call was a hydrate that read the snapshot
Hydrated == call.op = "hydrate" /\ result.value = TRUE

Panicked == call.op = "dg_panic" /\ result.kind = "ok"

\* the goal of the task that was active before the last call, if any
ActiveGoalBefore ==
    IF pre.session.activeTaskId = NoTask
    THEN Undefined
    ELSE pre.tasks[pre.session.activeTaskId].goal

\* C15: panic(reason) succeeds from every state: it sets PANIC, appends the
\* panic entry, and returns the goal of the active task (none if there is
\* no active task), the reason, and the most recent entries of the log, at
\* most 3, the panic entry being the last of them; tasks, claims,
\* activeTaskId, intentFiled and isVerified are as before the call.
C15_PanicHelpPacket ==
    call.op = "dg_panic" =>
        /\ result.kind = "ok"
        /\ session.currentState = PANIC
        /\ result.value.currentState = PANIC
        /\ result.value.panicReason = call.arg
        /\ result.value.currentTaskGoal = ActiveGoalBefore
        /\ logs = Append(pre.logs,
                         LogEntry("dg_panic", pre.session.activeTaskId, call.arg))
        /\ LET lastLogs == result.value.lastLogs
               k == Len(lastLogs)
           IN /\ k = Min(3, Len(logs))
              /\ \A i \in 1..k : lastLogs[i] = logs[Len(logs) - k + i]
        /\ tasks = pre.tasks
        /\ session = [pre.session EXCEPT !.currentState = PANIC]

\* a panic with a task active and more than 3 entries in the log
C15_Witness ==
    /\ Panicked
    /\ pre.session.activeTaskId # NoTask
    /\ pre.session.currentState = EXECUTING
    /\ pre.session.intentFiled
    /\ Len(logs) > 3
    /\ Len(result.value.lastLogs) = 3
    /\ result.value.currentTaskGoal = "G1"

\* C16: while currentState is PANIC no operation other than panic and reset
\* changes any task (claims, test command, risk score, checklist), the
\* active-claim cache, the hash cache or the session's task, step and flag
\* fields.
C16_WritesLockedInPanic ==
    (pre.session.currentState = PANIC /\ call.op \notin {"dg_panic", "dg_reset"}) =>
        /\ tasks = pre.tasks
        /\ session = pre.session

\* the log entries of an initialize and of a proposeTask are in the sequence
InitializedAndProposed(entries) ==
    /\ \E i \in 1..Len(entries) : entries[i].action = "dg_init"
    /\ \E i \in 1..Len(entries) : entries[i].action = "dg_propose_task"

Mutated == call.op # "constructor" /\ result.kind = "ok" /\ Snapshot # pre

\* C18: every operation that mutates the in-memory state commits it before
\* returning: the persisted snapshot (session, tasks, logs) equals the
\* in-memory state when the operation has returned.
C18_CommittedOnReturn ==
    Mutated =>
        /\ disk # NoFile
        /\ disk.session = session
        /\ disk.tasks = tasks
        /\ disk.logs = logs

\* C19: the log is a bounded queue: it never holds more than 100 entries,
\* and after n logging calls it consists of the most recent min(n, 100)
\* entries, in the order they were logged.
C19_LogBoundedQueue ==
    /\ Len(logs) <= LOG_LIMIT
    /\ call.op = "dg_panic" =>
          LET n == call.arg
              k == Len(logs)
          IN /\ k = Min(n, LOG_LIMIT)
             /\ \A i \in 1..k :
                   logs[i] = LogEntry("dg_panic", NoTask, n - k + i)

\* more than 100 entries were logged: the oldest ones are gone
C19_Witness ==
    /\ call.op = "dg_panic"
    /\ call.arg = LOG_LIMIT + 2
    /\ Len(logs) = LOG_LIMIT
    /\ logs[1].details = 3
    /\ logs[LOG_LIMIT].details = LOG_LIMIT + 2

\* every task registered before the last call is still registered
TasksKept ==
    /\ Len(tasks) >= Len(pre.tasks)
    /\ \A id \in 1..Len(pre.tasks) :
          /\ tasks[id].taskId = pre.tasks[id].taskId
          /\ tasks[id].goal = pre.tasks[id].goal
          /\ tasks[id].parentTaskId = pre.tasks[id].parentTaskId

-----------------------------------------------------------------------------
(* Session invariants *)

\* C21: in every reachable state activeTaskId, if set, is the id of a task
\* present in the task registry.
C21_ActiveTaskRegistered ==
    session.activeTaskId # NoTask => session.activeTaskId \in DOMAIN tasks

\* a restored session whose active task is the second of two
C21_Witness ==
    /\ Hydrated
    /\ session.activeTaskId = 2
    /\ Len(tasks) = 2

\* C22: the session is not in EXECUTING until a task has been proposed, that
\* task has claimed a scope and intent has been declared: in EXECUTING the
\* active task holds at least one claim and intentFiled is true.
C22_ExecutingNeedsClaimAndIntent ==
    session.currentState = EXECUTING =>
        /\ session.activeTaskId \in DOMAIN tasks
        /\ Len(tasks[session.activeTaskId].claims) > 0
        /\ session.intentFiled

-----------------------------------------------------------------------------
(* Audit notes *)

\* the last call was a checkpoint that reported its audit note as written
NotedCheckpoint ==
    call.op = "dg_checkpoint" /\ result.kind = "ok" /\ result.value.gitNoteWritten

\* the number of records of history equal to the record r
occurrences(history, r) == Cardinality({i \in 1..Len(history) : history[i] = r})

\* C23: reconstructHistory rebuilds the checkpoint history from the notes
\* alone: a checkpoint that wrote an audit record adds one record to the
\* reconstructed history and every record reconstructed before it is still
\* reconstructed, also when the head revision did not move in between.
C23_HistoryKeepsEveryCheckpoint ==
    NotedCheckpoint =>
        LET before == reconstructHistory([head |-> git.head, notes |-> pre.notes])
            after == reconstructHistory(git)
        IN /\ Len(after) = Len(before) + 1
           /\ \A i \in 1..Len(before) :
                 occurrences(after, before[i]) >= occurrences(before, before[i])

\* a checkpoint was called in EXECUTING with the intent filed and a task active
CheckpointDue ==
    /\ call.op = "dg_checkpoint"
    /\ pre.session.currentState = EXECUTING
    /\ pre.session.intentFiled
    /\ pre.session.activeTaskId \in DOMAIN pre.tasks

\* C25: an audit note that fails or is skipped never blocks or rolls back a
\* checkpoint: the checkpoint succeeds, marks the listed checklist items,
\* releases the claims, moves to IDLE and persists, and the note outcome
\* shows only in the gitNoteWritten flag of its result (no note is stored).
C25_NoteFailureNeverBlocks ==
    CheckpointDue =>
        /\ result.kind = "ok"
        /\ ~result.value.gitNoteWritten =>
              LET t == pre.session.activeTaskId IN
              /\ git.notes = pre.notes
              /\ result.value.status = "saved"
              /\ \A i \in 1..Len(tasks[t].checklist) :
                    pre.tasks[t].checklist[i].id \in call.arg =>
                        tasks[t].checklist[i].status = "done"
              /\ tasks[t].claims = <<>>
              /\ \A i \in 1..Len(session.activeClaims) :
                    session.activeClaims[i].ownerTaskId # t
              /\ session.currentState = IDLE
              /\ logs = Append(pre.logs, LogEntry("dg_checkpoint", t, "summary"))
              /\ disk = syncToDisk(session, tasks, logs)

\* a checkpoint without a note that marked an item and released a claim
C25_Witness ==
    /\ CheckpointDue
    /\ result.kind = "ok"
    /\ ~result.value.gitNoteWritten
    /\ Len(pre.tasks[pre.session.activeTaskId].claims) > 0
    /\ "1" \in call.arg
    /\ session.currentState = IDLE
    /\ git.notes = EmptyMap

-----------------------------------------------------------------------------
(* Risk score *)

\* the last call analysed the risk of a path
RiskAnalysed == call.op = "dg_analyze_risk" /\ result.kind = "ok"

\* C26 as stated: the score is min(100, 2c + 5a), and for a test or spec
\* path that value minus 20 floored at 0; it lies in 0..100.
C26_ScoreCappedThenReduced ==
    RiskAnalysed =>
        LET capped == Min(100, 2 * call.arg.commitCount + 5 * call.arg.authors) IN
        /\ result.value.score =
              (IF call.arg.isTest THEN Max(0, capped - 20) ELSE capped)
        /\ result.value.score \in 0..100

\* C26: the score is min(100, 2c + 5a), and for a test or spec path
\* min(100, max(0, 2c + 5a - 20)): the 20 points are taken off before the
\* cap at 100 is applied; it lies in 0..100.
C26_ScoreReducedThenCapped ==
    RiskAnalysed =>
        LET base == 2 * call.arg.commitCount + 5 * call.arg.authors IN
        /\ result.value.score =
              (IF call.arg.isTest THEN Min(100, Max(0, base - 20)) ELSE Min(100, base))
        /\ result.value.score \in 0..100

\* a test file with 50 commits by 5 authors scores 100
C26_Witness ==
    /\ RiskAnalysed
    /\ call.arg = [commitCount |-> 50, authors |-> 5, isTest |-> TRUE]
    /\ result.value.score = 100

-----------------------------------------------------------------------------
(* Release of claims *)

\* the claim c is in the sequence of claims
held(c, claims) == \E i \in 1..Len(claims) : claims[i] = c

\* C27: a successful checkpoint releases all claims of the checkpointing
\* task and only those: its claim list is empty, the active-claim cache has
\* no claim owned by it, and every claim owned by another task is still in
\* that task's list and in the cache.
C27_CheckpointReleasesOwnClaimsOnly ==
    (call.op = "dg_checkpoint" /\ result.kind = "ok") =>
        LET t == pre.session.activeTaskId IN
        /\ tasks[t].claims = <<>>
        /\ \A i \in 1..Len(session.activeClaims) :
              session.activeClaims[i].ownerTaskId # t
        /\ \A u \in DOMAIN pre.tasks \ {t} :
              /\ tasks[u].claims = pre.tasks[u].claims
              /\ \A i \in 1..Len(tasks[u].claims) :
                    held(tasks[u].claims[i], session.activeClaims)

\* the second task checkpoints while the first still holds its claim
C27_Witness ==
    /\ call.op = "dg_checkpoint"
    /\ result.kind = "ok"
    /\ pre.session.activeTaskId = 2
    /\ Len(pre.tasks[2].claims) > 0
    /\ Len(tasks[1].claims) > 0
    /\ Len(session.activeClaims) = Len(tasks[1].claims)

\* a checkpoint is in the log
Checkpointed == \E i \in 1..Len(logs) : logs[i].action = "dg_checkpoint"

\* C28: a checkpoint accepts out-of-band changes and sets a new integrity
\* baseline: when healthCheck reported DIRTY for files under a task's claims
\* and the task then checkpointed, a health check right after a later
\* granted claim on the same patterns, no file changed in between, returns
\* CLEAN.
C28_CheckpointSetsBaseline ==
    (HealthChecked /\ call.afterGrant /\ Checkpointed) =>
        result.value.status = "CLEAN"

-----------------------------------------------------------------------------
(* Version tolerance *)

\* C29: hydrate of a snapshot whose version differs from the engine's
\* returns true, adopts the snapshot's session and tasks, and logs the
\* mismatch: the in-memory log has a version-mismatch entry.
C29_VersionMismatchLogged ==
    (call.op = "hydrate" /\ disk # NoFile /\ disk.version # STATE_VERSION) =>
        /\ result.value = TRUE
        /\ session = disk.session
        /\ tasks = disk.tasks
        /\ \E i \in 1..Len(logs) :
              logs[i] = LogEntry("hydrate", NoTask, "Version mismatch")

-----------------------------------------------------------------------------
(* Operations in flight *)

\* C24: operations are processed one at a time: while an operation is
\* suspended at an I/O point no other operation has read and changed the
\* session state, the tasks, the log or the notes.
C24_NoInterleaving ==
    (suspended # NoOp /\ call.op # suspended.op) => Snapshot = pre

\* C30: the panic override is not defeated by in-flight work: when panic
\* was invoked while a checkpoint or a verify was suspended, currentState
\* is PANIC once the suspended operation has completed too.
C30_PanicSurvivesInFlight ==
    (/\ suspended = NoOp
     /\ call.op \in {"dg_checkpoint", "dg_verify"}
     /\ result.kind = "ok"
     /\ pre.session.currentState = PANIC) =>
        session.currentState = PANIC

-----------------------------------------------------------------------------
(* Calls without an active task *)

NoActiveTaskError == Error("No active task. Use dg_propose_task first.")
NoTaskToClaimError == Error("No active task to claim scope for.")

\* C31: an operation that needs an active task and finds none fails with a
\* no-active-task error and changes nothing: beginStep and reportIntent
\* called in IDLE with no active task, and claimScope called in any state
\* with no active task, raise the error and leave session, tasks, claims and
\* logs unchanged.
C31_NoActiveTaskRejected ==
    /\ (/\ call.op \in {"dg_begin_step", "dg_report_intent"}
        /\ pre.session.currentState = IDLE
        /\ pre.session.activeTaskId = NoTask) =>
           (result = NoActiveTaskError /\ Untouched)
    /\ (call.op = "dg_claim_scope" /\ pre.session.activeTaskId = NoTask) =>
           (result = NoTaskToClaimError /\ Untouched)

\* a claim refused in PANIC, after the checkpoint that completed the task
\* had cleared the active task
C31_Witness ==
    /\ call.op = "dg_claim_scope"
    /\ pre.session.activeTaskId = NoTask
    /\ pre.session.currentState = PANIC
    /\ Len(pre.tasks) > 0
    /\ result = NoTaskToClaimError

-----------------------------------------------------------------------------
(* Verification before checkpoint *)

\* C32: a checkpoint is accepted only after verification has passed:
\* whenever checkpoint succeeds for a task of strictness level 4 or higher,
\* isVerified was true at the time of the call.
C32_CheckpointNeedsVerified ==
    (/\ call.op = "dg_checkpoint"
     /\ result.kind = "ok"
     /\ pre.tasks[pre.session.activeTaskId].strictness >= L4_ENGINEERED) =>
        pre.session.isVerified

-----------------------------------------------------------------------------
(* checkConflict over a family of tasks: a task, its parent, its grandparent,
   a sibling and a child, and every short list of claims they can hold *)

\* claims in the list handed to checkConflict
MaxClaims == 2

\* parentTaskId of the tasks 1..5: 1 is the root, 2 its child, 3 and 4 the
\* children of 2, 5 the child of 3
FamilyParents == <<NoTask, 1, 2, 2, 3>>

ClaimPaths == {SrcAll, DocsAll}
RequestedPaths == {SrcAll, SrcIndex, DocsReadme}

FamilyClaims ==
    [path : ClaimPaths, exclusive : BOOLEAN, ownerTaskId : DOMAIN FamilyParents]

ClaimLists == UNION {[1..n -> FamilyClaims] : n \in 0..MaxClaims}

\* the claims of the list owned by the task, in the order of the list
RECURSIVE ownedBy(_, _)
ownedBy(claims, taskId) ==
    IF claims = <<>> THEN <<>>
    ELSE IF Head(claims).ownerTaskId = taskId
         THEN <<Head(claims)>> \o ownedBy(Tail(claims), taskId)
         ELSE ownedBy(Tail(claims), taskId)

familyTasks(claims) ==
    [id \in DOMAIN FamilyParents |->
        [taskId |-> id,
         goal |-> "G1",
         allowedScopes |-> <<SrcAll>>,
         checklist |-> <<>>,
         strictness |-> L2_LOGGED,
         parentTaskId |-> FamilyParents[id],
         subTaskIds |-> <<>>,
         claims |-> ownedBy(claims, id),
         lastIntent |-> Undefined,
         filesToTouch |-> <<>>,
         testCommand |-> Undefined,
         riskScore |-> NoRisk]]

InitConflict ==
    \E claims \in ClaimLists :
        /\ session = [createInitialSession EXCEPT !.activeClaims = claims]
        /\ tasks = familyTasks(claims)
        /\ logs = <<>>
        /\ disk = NoFile
        /\ files = [f \in Files |-> 1]
        /\ git = [head |-> 1, notes |-> EmptyMap]
        /\ now = 0
        /\ suspended = NoOp
        /\ call = [op |-> "constructor"]
        /\ pre = [session |-> session, tasks |-> tasks, logs |-> <<>>,
                  notes |-> EmptyMap]
        /\ result = NoError

\* scopeManager.checkConflict(requestedPath, requestorTaskId, activeClaims, tasks)
checkConflictCall(requestedPath, requestorTaskId) ==
    /\ call' = [op |-> "checkConflict", arg |-> requestedPath,
                requestorTaskId |-> requestorTaskId]
    /\ pre' = Snapshot
    /\ result' = Ok(checkConflict(requestedPath, requestorTaskId,
                                  session.activeClaims, tasks))
    /\ UNCHANGED <<session, tasks, logs, disk, files, git, now, suspended>>

NextConflict ==
    \E requestedPath \in RequestedPaths, requestorTaskId \in DOMAIN FamilyParents :
        checkConflictCall(requestedPath, requestorTaskId)

SpecConflict == InitConflict /\ [][NextConflict]_vars

\* the claim is owned by the task T itself or by T's direct parent
OwnOrParents(claim, T) ==
    claim.ownerTaskId = T \/ claim.ownerTaskId = tasks[T].parentTaskId

\* C33: delegation exception of checkConflict: for a requestor task T, no
\* claim owned by T itself or by T's direct parent ever causes a conflict,
\* whatever its exclusivity and the requested pattern; claims owned by any
\* other task (grandparent, sibling or child of T included) are subject to
\* the overlap test: there is a conflict exactly when one of them overlaps
\* the requested pattern, and the claim returned is one of those.
C33_DelegationException ==
    call.op = "checkConflict" =>
        LET T == call.requestorTaskId
            claims == session.activeClaims
            tested == {i \in 1..Len(claims) : ~OwnOrParents(claims[i], T)}
            overlapping == {i \in tested : checkOverlap(call.arg, claims[i].path)}
        IN /\ result.value = 0 <=> overlapping = {}
           /\ result.value # 0 => result.value \in overlapping

\* task 3 asks for a file under the exclusive claim of its parent and the
\* shared claim of its grandparent: the grandparent's claim is the conflict
C33_Witness ==
    /\ call.op = "checkConflict"
    /\ call.requestorTaskId = 3
    /\ call.arg = SrcIndex
    /\ session.activeClaims =
           <<[path |-> SrcAll, exclusive |-> TRUE, ownerTaskId |-> 2],
             [path |-> SrcAll, exclusive |-> FALSE, ownerTaskId |-> 1]>>
    /\ result.value = 2

-----------------------------------------------------------------------------
(* A checkpoint served while a verify waits for its test command *)

\* checkpoint called and returned between the start of the test command and
\* its exit: its own awaits are short next to the run of the tests
checkpointDuringVerify(summary, completedChecklistIds) ==
    /\ suspended.op = "dg_verify"
    /\ checkpoint(summary, completedChecklistIds, FALSE)

NextOverlap ==
    \/ NextAsync
    \/ \E ids \in CompletedIds : checkpointDuringVerify("summary", ids)

SpecOverlap == Init /\ [][NextOverlap]_vars

\* C34: in every reachable state, intentFiled = true, isVerified = true, or
\* a set active step id each imply that currentState is EXECUTING or PANIC:
\* none of them is ever set while the session is IDLE or PLANNING.
C34_FlagsOnlyWhileExecuting ==
    (\/ session.intentFiled
     \/ session.isVerified
     \/ session.activeStepId # NoStep) =>
        session.currentState \in {EXECUTING, PANIC}

-----------------------------------------------------------------------------
(* The active task while executing *)

NoActiveTaskFound == Error("No active task found")
ActiveTaskUndefined == Error("TypeError: Cannot read properties of undefined")

\* the operations that are only allowed in EXECUTING and work on the active task
OnActiveTask == {"dg_delegate", "dg_verify", "dg_explain_change", "dg_checkpoint"}

\* C35: in every reachable state with currentState = EXECUTING, activeTaskId
\* is set and keys an existing task, so delegateTask (which dereferences the
\* active task without checking it), verify, explainChange and checkpoint
\* never run without an active task: none of them ends on a missing task.
C35_ExecutingHasActiveTask ==
    /\ session.currentState = EXECUTING =>
          /\ session.activeTaskId # NoTask
          /\ session.activeTaskId \in DOMAIN tasks
    /\ call.op \in OnActiveTask =>
          /\ result # NoActiveTaskFound
          /\ result # ActiveTaskUndefined

\* a delegation from the second task proposed in the session
C35_Witness ==
    /\ call.op = "dg_delegate"
    /\ result.kind = "ok"
    /\ pre.session.currentState = EXECUTING
    /\ pre.session.activeTaskId = 2
    /\ session.activeTaskId = 2

-----------------------------------------------------------------------------
(* Coherence of the active-claim cache *)

\* C36: claim-cache coherence: after every operation, the session's
\* active-claim cache contains exactly the claims found in the claim lists
\* of all tasks (no claim missing, none extra), and every cached claim's
\* owner id is the id of an existing task whose own claim list contains
\* that claim.
C36_ClaimCacheCoherent ==
    /\ \A i \in 1..Len(session.activeClaims) :
          LET c == session.activeClaims[i] IN
          /\ c.ownerTaskId \in DOMAIN tasks
          /\ held(c, tasks[c.ownerTaskId].claims)
    /\ \A u \in DOMAIN tasks :
          ownedBy(session.activeClaims, u) = tasks[u].claims

\* a grant to the second task while the first task holds a claim
C36_Witness ==
    /\ call.op = "dg_claim_scope"
    /\ result.kind = "ok"
    /\ result.value.granted
    /\ Len(tasks) = 2
    /\ Len(tasks[1].claims) = 1
    /\ Len(tasks[2].claims) = 1
    /\ Len(session.activeClaims) = 2

-----------------------------------------------------------------------------
(* Progress of the checklist *)

\* the checklist `after` has the items of `before`, same ids in the same
\* order, and every item that was done is done
Progressed(before, after) ==
    /\ Len(after) = Len(before)
    /\ \A i \in 1..Len(before) :
          /\ after[i].id = before[i].id
          /\ before[i].status = "done" => after[i].status = "done"

\* dg_init served while a checkpoint waits at its first await: hydrate
\* replaces the state object the checkpoint has marked
initializeDuringCheckpoint ==
    /\ suspended.op = "dg_checkpoint"
    /\ initialize

\* runs in which a checkpoint is still waiting for git when dg_init is served
NextReload ==
    \/ \E p \in Proposals : proposeTask(p)
    \/ \E i \in Intents, stepId \in StepIds : reportIntent(i, <<SrcIndex>>, stepId)
    \/ \E r \in Requests : claimScope(r.paths, r.exclusive)
    \/ \E ids \in CompletedIds : checkpointBegin("summary", ids)
    \/ initializeDuringCheckpoint
    \/ panic("reason")

SpecReload == Init /\ [][NextReload]_vars

\* C37: checklist progress is monotone: once a checklist item of a task is
\* 'done' it is never 'todo' again, and a task's checklist ids, order and
\* length never change after the task is created, under every sequence of
\* operations other than reset (an initialize that finds no state directory
\* starts a registry without the task).
C37_ChecklistMonotone ==
    (call.op # "dg_reset" /\ ~InitializedAfresh) =>
        \A id \in DOMAIN pre.tasks :
            id \in DOMAIN tasks => Progressed(pre.tasks[id].checklist, tasks[id].checklist)

-----------------------------------------------------------------------------
(* Claims of tasks that are no longer active *)

\* a checkpoint called and returned while an earlier checkpoint call of the
\* same task is still waiting for git
checkpointDuringCheckpoint(summary, completedChecklistIds) ==
    /\ suspended.op = "dg_checkpoint"
    /\ checkpointWithin(summary, completedChecklistIds, FALSE, MaxLongLog)

RetryIds == {{}}

\* runs with a checkpoint that is issued twice, the first call still in flight
NextRetry ==
    \/ \E p \in ReleaseProposals : proposeTaskWithin(p, MaxLongLog)
    \/ \E r \in ReleaseRequests : claimScopeWithin(r.paths, r.exclusive, MaxLongLog)
    \/ \E i \in Intents, stepId \in StepIds :
          reportIntentWithin(i, <<SrcIndex>>, stepId, MaxLongLog)
    \/ \E ids \in RetryIds : checkpointBegin("summary", ids)
    \/ \E ids \in RetryIds : checkpointDuringCheckpoint("summary", ids)
    \/ checkpointResumeWithin(FALSE, MaxLongLog)

SpecRetry == Init /\ [][NextRetry]_vars

\* the operations after which a claim of another task is still held
KeepingOps ==
    {"dg_propose_task", "dg_report_intent", "dg_begin_step", "dg_checkpoint",
     "dg_delegate", "dg_claim_scope", "dg_panic"}

\* the claims that were cached before the call for a task that was not the
\* active one
OthersClaims ==
    {pre.session.activeClaims[i] : i \in
        {k \in 1..Len(pre.session.activeClaims) :
            pre.session.activeClaims[k].ownerTaskId # pre.session.activeTaskId}}

\* C38: a claim whose owning task is not the session's active task is never
\* released by any operation other than reset: it stays in its task's claim
\* list and in the active-claim cache after every later proposeTask,
\* reportIntent, beginStep, checkpoint, delegateTask, claimScope and panic,
\* and a request of another task for a path it overlaps is not granted.
C38_OthersClaimsKept ==
    call.op \in KeepingOps =>
        \A c \in OthersClaims :
            /\ occurrences(session.activeClaims, c)
                   >= occurrences(pre.session.activeClaims, c)
            /\ c.ownerTaskId \in DOMAIN tasks
            /\ held(c, tasks[c.ownerTaskId].claims)
            /\ (/\ call.op = "dg_claim_scope"
                /\ pre.session.activeTaskId # NoTask
                /\ \E i \in 1..Len(call.arg) : checkOverlap(call.arg[i], c.path))
                  => (result.kind = "ok" /\ ~result.value.granted)

-----------------------------------------------------------------------------
(* The way back to IDLE *)

\* the step that leaves EXECUTING other than by panic and reset: a checkpoint
\* that is accepted, whatever the length of the log
checkpointReturnsToIdle ==
    \E ids \in CompletedIds :
        /\ checkpointWithin("summary", ids, FALSE, Len(logs) + 1)
        /\ session'.currentState = IDLE

\* the session executes a step that was begun without an intent
Trapped == session.currentState = EXECUTING /\ ~session.intentFiled

\* no operation other than panic, reset and an initialize that finds no
\* state directory takes the session out of Trapped
TrappedForGood ==
    (/\ pre.session.currentState = EXECUTING
     /\ ~pre.session.intentFiled
     /\ call.op \notin {"constructor", "dg_panic", "dg_reset"}
     /\ ~InitializedAfresh) => Trapped

\* C39: no trap states short of PANIC: from every reachable state whose
\* currentState is not PANIC there is a sequence of operations that uses
\* neither panic nor reset and brings the session back to IDLE; outside IDLE
\* that sequence ends with an accepted checkpoint, the one operation that sets
\* IDLE, and no operation makes a checkpoint acceptable to a session that
\* is already executing, so the checkpoint can be accepted right away.
C39_NoTrapShortOfPanic ==
    session.currentState \notin {IDLE, PANIC} => ENABLED checkpointReturnsToIdle

-----------------------------------------------------------------------------
(* Delegated sub-tasks *)

\* the tasks created by delegateTask
SubTasks == {id \in DOMAIN tasks : tasks[id].parentTaskId # NoTask}

\* the log entries of the operations a task performs as the active task
WorkOf(id) ==
    {i \in 1..Len(logs) :
        /\ logs[i].taskId = id
        /\ logs[i].action \in {"dg_report_intent", "dg_begin_step", "dg_claim_scope",
                               "dg_checkpoint", "dg_verify"}}

====
